---- MODULE Spec2Model ----
(***************************************************************************)
(* The Go playground of rust_vs_go_memory_model: main and its demo         *)
(* functions (part_000), the escape-analysis examples                      *)
(* (golang-playground/escape_analysis.go) and the memory tracker           *)
(* (part_001), run statement by statement on an abstract Go runtime:       *)
(* memory cells placed on the stack or the heap by escape analysis, a      *)
(* collector that frees unreachable heap cells (on runtime.GC() and, at    *)
(* times the program does not control, in the background) and the          *)
(* runtime's allocation counters read by runtime.ReadMemStats.             *)
(*                                                                         *)
(* Addresses are allocation numbers (never reused). fmt's own internal     *)
(* allocations are not modelled; a print is an event of the trace.         *)
(***************************************************************************)
EXTENDS Integers, Sequences, FiniteSets, TLC

VARIABLES
    pc,        \* label of the next statement of the running function
    stack,     \* call stack: one [fn, ret] per active call below main
    locals,    \* <<function, variable>> -> value, for the active calls
    mem,       \* address -> cell [region, frame, size, val]
    nextAddr,  \* the next allocation's address
    globals,   \* the package-level variables globalInterface, globalPtr
    ret,       \* the value a returning function hands to its caller
    mstats,    \* the runtime's counters (runtime.MemStats)
    trace      \* events so far: calls, returns, prints, runtime calls, stores

vars == <<pc, stack, locals, mem, nextAddr, globals, ret, mstats, trace>>

(***************************************************************************)
(* Values                                                                  *)
(***************************************************************************)
None == [t |-> "none"]
IntV(n) == [t |-> "int", v |-> n]
StrV(s) == [t |-> "string", v |-> s]
Ptr(a) == [t |-> "ptr", a |-> a]
NilPtr == Ptr(0)
\* a variable that lives in a memory cell of its own (its address is taken)
VarAt(a) == [t |-> "var", a |-> a]
\* an interface value: its data word points to the boxed value
Iface(a) == [t |-> "iface", a |-> a]
NilIface == Iface(0)
\* a function value: the code it runs and the cell of the variable it captured
Func(code, a) == [t |-> "func", code |-> code, a |-> a]
SliceVal(a, off, len, cap) ==
    [t |-> "slice", a |-> a, off |-> off, len |-> len, cap |-> cap]
Array(es) == [t |-> "array", e |-> es]
\* a zeroed array of n elements whose contents the program never reads
Zeros(n) == [t |-> "zeros", n |-> n]
Garbage == [t |-> "garbage"]

User(name, age) == [t |-> "User", Name |-> name, Age |-> age]
LargeObject(id, data) == [t |-> "LargeObject", ID |-> id, Data |-> data]
SmallStruct(a, b) == [t |-> "SmallStruct", A |-> a, B |-> b]

\* sizes in bytes (64-bit): int and pointer 8, string 16, slice header 24
WordSize == 8
SizeofUser == 16 + WordSize
SizeofLargeObject == WordSize + 24

RECURSIVE SeqRefs(_)
RECURSIVE Refs(_)
\* the addresses a value holds
Refs(v) ==
    CASE v.t \in {"ptr", "var", "iface", "func", "slice"} ->
            IF v.a = 0 THEN {} ELSE {v.a}
      [] v.t = "LargeObject" -> Refs(v.Data)
      [] v.t = "array" -> SeqRefs(v.e)
      [] OTHER -> {}
SeqRefs(es) == IF es = <<>> THEN {} ELSE Refs(Head(es)) \cup SeqRefs(Tail(es))

(***************************************************************************)
(* Escape analysis: where a variable or allocation is placed.              *)
(***************************************************************************)
\* An allocation site: its function, its size and the ways a reference to
\* it leaves the function ("return", "global", "interface", "closure",
\* "heapstore": stored through a pointer or slice the analysis cannot follow).
Site(fn, name, size, flows) ==
    [fn |-> fn, name |-> name, size |-> size, flows |-> flows]

\* the largest implicit allocation (make, new, &T{}) the compiler keeps on
\* the stack: 64 KB
MaxImplicitStackVarSize == 65536

\* the analysis without its first question (a returned pointer)
EscapesIgnoringReturn(s) ==
    (s.flows \ {"return"}) # {} \/ s.size > MaxImplicitStackVarSize
\* the analysis without its third question (a captured variable)
EscapesIgnoringClosure(s) ==
    (s.flows \ {"closure"}) # {} \/ s.size > MaxImplicitStackVarSize
\* s escapes when a reference to it leaves its function or it is too large
\* for the stack
Escapes(s) == s.flows # {} \/ s.size > MaxImplicitStackVarSize

Cell(s, val) ==
    [region |-> IF Escapes(s) THEN "heap" ELSE "stack",
     frame |-> s.fn, size |-> s.size, name |-> s.name, val |-> val]

\* the counters after a heap allocation of n bytes (runtime.MemStats)
Mallocgc(st, n) ==
    [st EXCEPT !.TotalAlloc = @ + n, !.Mallocs = @ + 1, !.HeapAlloc = @ + n]

MemWith(s, val) == (nextAddr :> Cell(s, val)) @@ mem
StatsAdd(st, s) == IF Escapes(s) THEN Mallocgc(st, s.size) ELSE st
StatsWith(s) == StatsAdd(mstats, s)

\* reading and writing through an address
Load(a) == IF a \in DOMAIN mem THEN mem[a].val ELSE Garbage
StoredInCopy(m, a, val) == m
\* memory m after the cell at a is assigned val
Stored(m, a, val) ==
    IF a \in DOMAIN m THEN [m EXCEPT ![a].val = val] ELSE m

(***************************************************************************)
(* The collector                                                           *)
(***************************************************************************)
LocalRoots == UNION {Refs(locals[k]) : k \in DOMAIN locals}
GlobalRoots == Refs(globals.globalInterface) \cup Refs(globals.globalPtr)
Roots == LocalRoots \cup GlobalRoots \cup Refs(ret)

RECURSIVE ReachFrom(_)
ReachFrom(S) ==
    LET nxt == S \cup UNION {Refs(mem[a].val) : a \in S \cap DOMAIN mem}
    IN IF nxt = S THEN S ELSE ReachFrom(nxt)

Reachable == ReachFrom(Roots)
HeapCells == {a \in DOMAIN mem : mem[a].region = "heap"}
Unreachable == HeapCells \ Reachable

RECURSIVE SumSizesBelow(_, _)
SumSizesBelow(S, n) ==
    IF n = 0 THEN 0
    ELSE (IF n \in S THEN mem[n].size ELSE 0) + SumSizesBelow(S, n - 1)
\* the bytes of the cells of S (addresses run from 1 to nextAddr - 1)
SumSizes(S) == SumSizesBelow(S, nextAddr - 1)

\* what a collection cycle of the runtime frees: the unreachable heap cells
Sweep == Unreachable
\* what runtime.GC() has freed when it returns: a whole cycle
RuntimeGCFreesNothing == {}
RuntimeGCFrees == Unreachable

Collected(S) == [a \in DOMAIN mem \ S |-> mem[a]]
StatsCollected(S) ==
    [mstats EXCEPT !.Frees = @ + Cardinality(S),
                   !.HeapAlloc = @ - SumSizes(S)]

(***************************************************************************)
(* Calls, returns, locals                                                  *)
(***************************************************************************)
Ev(e, what) == [e |-> e, what |-> what]
\* an allocation: the site, where it was placed and what it holds
Alloc(s, val) ==
    [e |-> "alloc", what |-> s.name, fn |-> s.fn, kind |-> val.t,
     region |-> IF Escapes(s) THEN "heap" ELSE "stack"]
Printed(at, vals) == [e |-> "print", what |-> at, v |-> vals]
Log(ev) == trace' = Append(trace, ev)

Bind(f, v, val) == (<<f, v>> :> val) @@ locals
Local(f, v) == locals[<<f, v>>]
\* the current value of a variable that lives in a cell
CellVar(f, v) == Load(Local(f, v).a)

Call(f, entry, back) ==
    /\ stack' = Append(stack, [fn |-> f, ret |-> back])
    /\ pc' = entry
    /\ Log(Ev("call", f))

LocalsAfter(f) == [k \in {x \in DOMAIN locals : x[1] # f} |-> locals[k]]
\* a returning function's stack cells go with its frame
MemAfter(f) ==
    [a \in {x \in DOMAIN mem : ~(mem[x].region = "stack" /\ mem[x].frame = f)}
        |-> mem[a]]

Return(f, val) ==
    /\ stack # <<>> /\ stack[Len(stack)].fn = f
    /\ pc' = stack[Len(stack)].ret
    /\ stack' = SubSeq(stack, 1, Len(stack) - 1)
    /\ locals' = LocalsAfter(f)
    /\ mem' = MemAfter(f)
    /\ ret' = val
    /\ Log(Ev("return", f))
    /\ UNCHANGED <<nextAddr, globals, mstats>>

\* a statement that only moves on, binds locals or prints
Skip(to) == pc' = to /\ UNCHANGED <<stack, locals, mem, nextAddr, globals, ret, mstats, trace>>
Assign(to, f, v, val) ==
    /\ pc' = to /\ locals' = Bind(f, v, val)
    /\ UNCHANGED <<stack, mem, nextAddr, globals, ret, mstats, trace>>
Fmt(to, vals) ==
    /\ pc' = to /\ Log(Printed(pc, vals))
    /\ UNCHANGED <<stack, locals, mem, nextAddr, globals, ret, mstats>>
\* allocate a cell for site s holding val and bind v of f to ref
Allocate(to, f, v, s, val, ref) ==
    /\ pc' = to
    /\ mem' = MemWith(s, val)
    /\ mstats' = StatsWith(s)
    /\ nextAddr' = nextAddr + 1
    /\ locals' = Bind(f, v, ref)
    /\ Log(Alloc(s, val))
    /\ UNCHANGED <<stack, globals, ret>>
\* declare variable v of f in a cell of its own, placed by escape analysis
Declare(to, f, v, size, flows, val) ==
    Allocate(to, f, v, Site(f, v, size, flows), val, VarAt(nextAddr))
\* v := make(...) or &T{...}: a fresh cell, v of f points to it
New(to, f, v, what, size, flows, val, ref) ==
    Allocate(to, f, v, Site(f, what, size, flows), val, ref)
Exit == <<"exit", 0>>
Panicked == <<"panic", 0>>
Panic ==
    /\ pc' = Panicked /\ Log(Ev("panic", pc))
    /\ UNCHANGED <<stack, locals, mem, nextAddr, globals, ret, mstats>>

Init ==
    /\ pc = <<"main", 1>>
    /\ stack = <<>>
    /\ locals = <<>>
    /\ mem = <<>>
    /\ nextAddr = 1
    /\ globals = [globalInterface |-> NilIface, globalPtr |-> NilPtr]
    /\ ret = None
    /\ mstats = [TotalAlloc |-> 0, Mallocs |-> 0, Frees |-> 0, HeapAlloc |-> 0]
    /\ trace = <<>>

(***************************************************************************)
(* Slices                                                                  *)
(***************************************************************************)
\* s[lo:hi] is legal when 0 <= lo <= hi <= cap(s)
SliceOk(s, lo, hi) == 0 <= lo /\ lo <= hi /\ hi <= s.cap
SliceExprFromStart(s, lo, hi) == SliceVal(s.a, s.off, hi - lo, s.cap - lo)
\* s[lo:hi]: the same backing array, lo elements further on
SliceExpr(s, lo, hi) == SliceVal(s.a, s.off + lo, hi - lo, s.cap - lo)
\* s[i] is legal when 0 <= i < len(s)
IndexOk(s, i) == 0 <= i /\ i < s.len
\* the elements of s, as fmt shows them with %v
Elems(s) ==
    LET arr == Load(s.a) IN
    IF arr.t = "array" /\ s.off + s.len <= Len(arr.e)
    THEN [k \in 1..s.len |-> arr.e[s.off + k]]
    ELSE <<Garbage>>
\* memory after s[i] = val
IndexStored(s, i, val) ==
    LET arr == Load(s.a) IN
    IF arr.t = "array" /\ s.off + i + 1 <= Len(arr.e)
    THEN Stored(mem, s.a, Array([arr.e EXCEPT ![s.off + i + 1] = val]))
    ELSE mem

(***************************************************************************)
(* main                                                                    *)
(***************************************************************************)
Say(text) == [op |-> "print", v |-> text]
Run(f) == [op |-> "call", f |-> f]

MainBodySwapped ==
    << Say("=== Go Memory Model Playground ==="), Say(""),
       Say("1. Stack vs Heap Allocation"),
       Run("stackExample"), Run("heapExample"),
       Say("2. Pointer Sharing (Multiple References)"),
       Run("sliceSharingExample"),
       Say("3. Slice Sharing (Shared Backing Array)"),
       Run("pointerSharingExample"),
       Run("DemonstrateEscapeAnalysis"),
       Run("DemonstrateMemoryTracking") >>
\* the statements of main, in source order
MainBody ==
    << Say("=== Go Memory Model Playground ==="), Say(""),
       Say("1. Stack vs Heap Allocation"),
       Run("stackExample"), Run("heapExample"),
       Say("2. Pointer Sharing (Multiple References)"),
       Run("pointerSharingExample"),
       Say("3. Slice Sharing (Shared Backing Array)"),
       Run("sliceSharingExample"),
       Run("DemonstrateEscapeAnalysis"),
       Run("DemonstrateMemoryTracking") >>

At(f, n) == pc = <<f, n>>

Main ==
    /\ pc[1] = "main"
    /\ LET i == pc[2] IN
       IF i > Len(MainBody)
       THEN /\ pc' = Exit
            /\ Log(Ev("return", "main"))
            /\ UNCHANGED <<stack, locals, mem, nextAddr, globals, ret, mstats>>
       ELSE IF MainBody[i].op = "print"
       THEN Fmt(<<"main", i + 1>>, <<MainBody[i].v>>)
       ELSE /\ Call(MainBody[i].f, <<MainBody[i].f, 1>>, <<"main", i + 1>>)
            /\ UNCHANGED <<locals, mem, nextAddr, globals, ret, mstats>>

(***************************************************************************)
(* stackExample, heapExample, createUser                                   *)
(***************************************************************************)
StackExample ==
    LET f == "stackExample" IN
    \/ At(f, 1) /\ Assign(<<f, 2>>, f, "x", IntV(42))
    \/ At(f, 2) /\ Fmt(<<f, 3>>, <<Local(f, "x").v>>)
    \/ At(f, 3) /\ Return(f, None)

HeapExample ==
    LET f == "heapExample" IN
    \/ /\ At(f, 1)
       /\ Call("createUser", <<"createUser", 1>>, <<f, 2>>)
       /\ UNCHANGED <<locals, mem, nextAddr, globals, ret, mstats>>
    \/ At(f, 2) /\ Assign(<<f, 3>>, f, "user", ret)
    \* %+v of a *User shows the struct it points to (<nil> for nil)
    \/ At(f, 3) /\ Fmt(<<f, 4>>, <<Load(Local(f, "user").a)>>)
    \/ At(f, 4) /\ Return(f, None)

CreateUser ==
    LET f == "createUser" IN
    \/ At(f, 1) /\ Declare(<<f, 2>>, f, "u", SizeofUser, {"return"},
                           User("Alice", 30))
    \/ At(f, 2) /\ Return(f, Ptr(Local(f, "u").a))

(***************************************************************************)
(* pointerSharingExample                                                   *)
(***************************************************************************)
\* one Printf line: the pointer, the address of the pointer variable, *ptr
ShowPointer(f, v, to) ==
    IF CellVar(f, v).a = 0 THEN Panic
    ELSE Fmt(to, <<CellVar(f, v).a, Local(f, v).a, Load(CellVar(f, v).a)>>)

PointerSharingExample ==
    LET f == "pointerSharingExample"
        lit == Site(f, "&User{}", SizeofUser, {"interface"})
        var == Site(f, "user", WordSize, {"interface"})
    IN
    \* user := &User{Name: "Bob", Age: 25}: the struct, then the variable
    \/ /\ At(f, 1)
       /\ pc' = <<f, 2>>
       /\ mem' = (nextAddr + 1 :> Cell(var, Ptr(nextAddr)))
                    @@ MemWith(lit, User("Bob", 25))
       /\ mstats' = StatsAdd(StatsWith(lit), var)
       /\ nextAddr' = nextAddr + 2
       /\ locals' = Bind(f, "user", VarAt(nextAddr + 1))
       /\ trace' = trace \o <<Alloc(lit, User("Bob", 25)), Alloc(var, NilPtr)>>
       /\ UNCHANGED <<stack, globals, ret>>
    \/ At(f, 2) /\ Declare(<<f, 3>>, f, "ptr1", WordSize, {"interface"},
                           CellVar(f, "user"))
    \/ At(f, 3) /\ Declare(<<f, 4>>, f, "ptr2", WordSize, {"interface"},
                           CellVar(f, "user"))
    \/ At(f, 4) /\ Declare(<<f, 5>>, f, "ptr3", WordSize, {"interface"},
                           CellVar(f, "user"))
    \/ At(f, 5) /\ ShowPointer(f, "user", <<f, 6>>)
    \/ At(f, 6) /\ ShowPointer(f, "ptr1", <<f, 7>>)
    \/ At(f, 7) /\ ShowPointer(f, "ptr2", <<f, 8>>)
    \/ At(f, 8) /\ ShowPointer(f, "ptr3", <<f, 9>>)
    \/ At(f, 9) /\ Fmt(<<f, 10>>, <<"All pointers share the same heap memory!">>)
    \/ At(f, 10) /\ Fmt(<<f, 11>>,
                        <<"GC will clean up when all references are gone">>)
    \* ptr1.Age = 26
    \/ /\ At(f, 11)
       /\ LET p == CellVar(f, "ptr1") IN
          IF p.a = 0 THEN Panic
          ELSE /\ pc' = <<f, 12>>
               /\ mem' = Stored(mem, p.a, [Load(p.a) EXCEPT !.Age = 26])
               /\ UNCHANGED <<stack, locals, nextAddr, globals, ret, mstats,
                              trace>>
    \/ /\ At(f, 12)
       /\ IF CellVar(f, "user").a = 0 THEN Panic
          ELSE Fmt(<<f, 13>>, <<Load(CellVar(f, "user").a)>>)
    \/ At(f, 13) /\ Return(f, None)

(***************************************************************************)
(* sliceSharingExample                                                     *)
(***************************************************************************)
ShowSlice(f, v, to) ==
    Fmt(to, <<Elems(Local(f, v)), Local(f, v).len, Local(f, v).cap>>)

SliceSharingExample ==
    LET f == "sliceSharingExample" IN
    \/ At(f, 1) /\ New(<<f, 2>>, f, "original", "[]int{1, 2, 3, 4, 5}",
                       5 * WordSize, {"interface"},
                       Array(<<IntV(1), IntV(2), IntV(3), IntV(4), IntV(5)>>),
                       SliceVal(nextAddr, 0, 5, 5))
    \* slice1 := original[1:4]
    \/ /\ At(f, 2)
       /\ IF SliceOk(Local(f, "original"), 1, 4)
          THEN Assign(<<f, 3>>, f, "slice1", SliceExpr(Local(f, "original"), 1, 4))
          ELSE Panic
    \* slice2 := original[2:]
    \/ /\ At(f, 3)
       /\ LET o == Local(f, "original") IN
          IF SliceOk(o, 2, o.len)
          THEN Assign(<<f, 4>>, f, "slice2", SliceExpr(o, 2, o.len))
          ELSE Panic
    \/ At(f, 4) /\ ShowSlice(f, "original", <<f, 5>>)
    \/ At(f, 5) /\ ShowSlice(f, "slice1", <<f, 6>>)
    \/ At(f, 6) /\ ShowSlice(f, "slice2", <<f, 7>>)
    \* slice1[1] = 99
    \/ /\ At(f, 7)
       /\ IF IndexOk(Local(f, "slice1"), 1)
          THEN /\ pc' = <<f, 8>>
               /\ mem' = IndexStored(Local(f, "slice1"), 1, IntV(99))
               /\ UNCHANGED <<stack, locals, nextAddr, globals, ret, mstats,
                              trace>>
          ELSE Panic
    \/ At(f, 8) /\ Fmt(<<f, 9>>, <<"After modifying slice1[1] = 99:">>)
    \/ At(f, 9) /\ Fmt(<<f, 10>>, <<Elems(Local(f, "original"))>>)
    \/ At(f, 10) /\ Fmt(<<f, 11>>, <<Elems(Local(f, "slice1"))>>)
    \/ At(f, 11) /\ Fmt(<<f, 12>>, <<Elems(Local(f, "slice2"))>>)
    \/ At(f, 12) /\ Fmt(<<f, 13>>,
                        <<"All slices share the same backing array on heap">>)
    \/ At(f, 13) /\ Return(f, None)

(***************************************************************************)
(* escape_analysis.go                                                      *)
(***************************************************************************)
CallOnly(f, to) ==
    /\ Call(f, <<f, 1>>, to)
    /\ UNCHANGED <<locals, mem, nextAddr, globals, ret, mstats>>

\* a package-level variable is assigned
SetGlobal(to, g, val) ==
    /\ pc' = to
    /\ globals' = [globals EXCEPT ![g] = val]
    /\ Log(Ev("setglobal", g))
    /\ UNCHANGED <<stack, locals, mem, nextAddr, ret, mstats>>

NoEscape ==
    LET f == "noEscape" IN
    \/ At(f, 1) /\ Declare(<<f, 2>>, f, "x", WordSize, {}, IntV(42))
    \/ At(f, 2) /\ Skip(<<f, 3>>)
    \/ At(f, 3) /\ Return(f, None)

EscapesViaReturn ==
    LET f == "escapesViaReturn" IN
    \/ At(f, 1) /\ Declare(<<f, 2>>, f, "x", WordSize, {"return"}, IntV(42))
    \/ At(f, 2) /\ Return(f, Ptr(Local(f, "x").a))

EscapesViaInterfaceLocal ==
    LET f == "escapesViaInterface" IN
    \/ At(f, 1) /\ Declare(<<f, 2>>, f, "x", WordSize, {"interface"}, IntV(42))
    \/ At(f, 2) /\ Assign(<<f, 3>>, f, "iface", Iface(Local(f, "x").a))
    \/ At(f, 3) /\ Return(f, None)

EscapesViaInterface ==
    LET f == "escapesViaInterface" IN
    \/ At(f, 1) /\ Declare(<<f, 2>>, f, "x", WordSize, {"interface"}, IntV(42))
    \/ At(f, 2) /\ SetGlobal(<<f, 3>>, "globalInterface", Iface(Local(f, "x").a))
    \/ At(f, 3) /\ Return(f, None)

EscapesViaSizeTooLarge ==
    LET f == "escapesViaSizeTooLarge" IN
    \/ At(f, 1) /\ New(<<f, 2>>, f, "largeArray", "make([]int, 1000000)",
                       1000000 * WordSize, {}, Zeros(1000000),
                       SliceVal(nextAddr, 0, 1000000, 1000000))
    \/ At(f, 2) /\ Skip(<<f, 3>>)
    \/ At(f, 3) /\ Return(f, None)

NoEscapeLocalPointer ==
    LET f == "noEscapeLocalPointer" IN
    \/ At(f, 1) /\ Declare(<<f, 2>>, f, "x", WordSize, {}, IntV(42))
    \/ At(f, 2) /\ Assign(<<f, 3>>, f, "ptr", Ptr(Local(f, "x").a))
    \/ At(f, 3) /\ IF Local(f, "ptr").a = 0 THEN Panic ELSE Skip(<<f, 4>>)
    \/ At(f, 4) /\ Return(f, None)

EscapesViaGlobal ==
    LET f == "escapesViaGlobal" IN
    \/ At(f, 1) /\ Declare(<<f, 2>>, f, "x", WordSize, {"global"}, IntV(42))
    \/ At(f, 2) /\ SetGlobal(<<f, 3>>, "globalPtr", Ptr(Local(f, "x").a))
    \/ At(f, 3) /\ Return(f, None)

EscapesViaClosure ==
    LET f == "escapesViaClosure" IN
    \/ At(f, 1) /\ Declare(<<f, 2>>, f, "x", WordSize, {"closure"}, IntV(42))
    \/ At(f, 2) /\ Return(f, Func("escapesViaClosure.func1", Local(f, "x").a))

\* the closure escapesViaClosure returns: return x
EscapesViaClosureFunc1 ==
    LET f == "escapesViaClosure.func1" IN
    At(f, 1) /\ Return(f, CellVar(f, "x"))

DemonstrateEscapeAnalysis ==
    LET f == "DemonstrateEscapeAnalysis" IN
    \/ At(f, 1) /\ CallOnly("noEscape", <<f, 2>>)
    \/ At(f, 2) /\ CallOnly("escapesViaReturn", <<f, 3>>)
    \/ At(f, 3) /\ Assign(<<f, 4>>, f, "ptr", ret)
    \* _ = *ptr
    \/ At(f, 4) /\ IF Local(f, "ptr").a = 0 THEN Panic ELSE Skip(<<f, 5>>)
    \/ At(f, 5) /\ CallOnly("escapesViaInterface", <<f, 6>>)
    \/ At(f, 6) /\ CallOnly("escapesViaSizeTooLarge", <<f, 7>>)
    \/ At(f, 7) /\ CallOnly("noEscapeLocalPointer", <<f, 8>>)
    \/ At(f, 8) /\ CallOnly("escapesViaGlobal", <<f, 9>>)
    \/ At(f, 9) /\ CallOnly("escapesViaClosure", <<f, 10>>)
    \/ At(f, 10) /\ Assign(<<f, 11>>, f, "fn", ret)
    \* _ = fn(): the closure runs with the x it captured
    \/ /\ At(f, 11)
       /\ LET fn == Local(f, "fn") IN
          IF fn.t # "func" THEN Panic
          ELSE /\ Call(fn.code, <<fn.code, 1>>, <<f, 12>>)
               /\ locals' = Bind(fn.code, "x", VarAt(fn.a))
               /\ UNCHANGED <<mem, nextAddr, globals, ret, mstats>>
    \/ At(f, 12) /\ Return(f, None)

(***************************************************************************)
(* The memory tracker                                                      *)
(***************************************************************************)
\* what runtime.ReadMemStats copies out of the runtime's counters
ReadMemStats(st) ==
    [TotalAlloc |-> st.TotalAlloc, HeapAlloc |-> st.HeapAlloc,
     HeapObjects |-> st.Mallocs - st.Frees, Mallocs |-> st.Mallocs]
ZeroMemStats == [TotalAlloc |-> 0, HeapAlloc |-> 0, HeapObjects |-> 0, Mallocs |-> 0]

\* a uint64: v, or 2^64 - v when wrapped
U64(v) == [t |-> "uint64", wrapped |-> FALSE, v |-> v]
\* a - b on uint64 operands: modulo 2^64
Sub64(a, b) ==
    IF a >= b THEN U64(a - b) ELSE [t |-> "uint64", wrapped |-> TRUE, v |-> b - a]

\* the four calls of DemonstrateMemoryTracking: the name and the closure
Tracked ==
    << [name |-> "Stack Only (should be minimal)",
        code |-> "DemonstrateMemoryTracking.func1",
        target |-> "stackOnlyAllocation"],
       [name |-> "Small Structs on Stack",
        code |-> "DemonstrateMemoryTracking.func2",
        target |-> "stackStructAllocation"],
       [name |-> "Heap Allocation (createLargeObject x10)",
        code |-> "DemonstrateMemoryTracking.func3",
        target |-> "heapAllocationViaPointer"],
       [name |-> "Large Allocation (1MB slice)",
        code |-> "DemonstrateMemoryTracking.func4",
        target |-> "largeAllocation"] >>

TrackMemoryFlowFnFirst(n) ==
    CASE n = 2 -> 4 [] n = 4 -> 3 [] n = 3 -> 5 [] OTHER -> n + 1
TrackMemoryFlowReadFirst(n) ==
    CASE n = 1 -> 3 [] n = 3 -> 2 [] n = 2 -> 4 [] OTHER -> n + 1
\* TrackMemory is straight-line code: statement n is followed by n + 1
TrackMemoryFlow(n) == n + 1

TrackMemory ==
    LET f == "TrackMemory"
        m == Local(f, "m")
    IN
    \* var m MemStats
    \/ At(f, 1) /\ Assign(<<f, TrackMemoryFlow(1)>>, f, "m",
                          [t |-> "MemStats", Before |-> ZeroMemStats,
                           After |-> ZeroMemStats])
    \* runtime.GC(): a whole collection cycle, done when the call returns
    \/ /\ At(f, 2)
       /\ pc' = <<f, TrackMemoryFlow(2)>>
       /\ mem' = Collected(RuntimeGCFrees)
       /\ mstats' = StatsCollected(RuntimeGCFrees)
       /\ Log(Ev("runtime.GC", f))
       /\ UNCHANGED <<stack, locals, nextAddr, globals, ret>>
    \* runtime.ReadMemStats(&m.Before)
    \/ /\ At(f, 3)
       /\ pc' = <<f, TrackMemoryFlow(3)>>
       /\ locals' = Bind(f, "m", [m EXCEPT !.Before = ReadMemStats(mstats)])
       /\ Log(Ev("ReadMemStats", "Before"))
       /\ UNCHANGED <<stack, mem, nextAddr, globals, ret, mstats>>
    \* fn()
    \/ /\ At(f, 4)
       /\ IF Local(f, "fn").t # "func" THEN Panic
          ELSE /\ Call(Local(f, "fn").code, <<Local(f, "fn").code, 1>>, <<f, TrackMemoryFlow(4)>>)
               /\ UNCHANGED <<locals, mem, nextAddr, globals, ret, mstats>>
    \* runtime.ReadMemStats(&m.After)
    \/ /\ At(f, 5)
       /\ pc' = <<f, TrackMemoryFlow(5)>>
       /\ locals' = Bind(f, "m", [m EXCEPT !.After = ReadMemStats(mstats)])
       /\ Log(Ev("ReadMemStats", "After"))
       /\ UNCHANGED <<stack, mem, nextAddr, globals, ret, mstats>>
    \/ At(f, 6) /\ Assign(<<f, TrackMemoryFlow(6)>>, f, "allocDiff",
                          Sub64(m.After.TotalAlloc, m.Before.TotalAlloc))
    \/ At(f, 7) /\ Assign(<<f, TrackMemoryFlow(7)>>, f, "heapAllocDiff",
                          Sub64(m.After.HeapAlloc, m.Before.HeapAlloc))
    \/ At(f, 8) /\ Assign(<<f, TrackMemoryFlow(8)>>, f, "heapObjects",
                          Sub64(m.After.HeapObjects, m.Before.HeapObjects))
    \/ At(f, 9) /\ Fmt(<<f, TrackMemoryFlow(9)>>, <<"Memory Tracking", Local(f, "name").v>>)
    \/ At(f, 10) /\ Fmt(<<f, TrackMemoryFlow(10)>>, <<"Total allocated", Local(f, "allocDiff")>>)
    \/ At(f, 11) /\ Fmt(<<f, TrackMemoryFlow(11)>>, <<"Heap allocated", Local(f, "heapAllocDiff")>>)
    \/ At(f, 12) /\ Fmt(<<f, TrackMemoryFlow(12)>>, <<"Heap objects added", Local(f, "heapObjects")>>)
    \/ At(f, 13) /\ Fmt(<<f, TrackMemoryFlow(13)>>,
                        <<"Mallocs", Sub64(m.After.Mallocs, m.Before.Mallocs)>>)
    \/ At(f, 14) /\ Return(f, None)

StackOnlyAllocation ==
    LET f == "stackOnlyAllocation" IN
    \/ At(f, 1) /\ Assign(<<f, 2>>, f, "x", IntV(42))
    \/ At(f, 2) /\ Assign(<<f, 3>>, f, "y", IntV(Local(f, "x").v + 10))
    \/ At(f, 3) /\ Skip(<<f, 4>>)
    \/ At(f, 4) /\ Return(f, None)

DataLen == 1024
CreateLargeObject ==
    LET f == "createLargeObject" IN
    \* Data: make([]byte, 1024)
    \/ At(f, 1) /\ New(<<f, 2>>, f, "Data", "make([]byte, 1024)", DataLen,
                       {"heapstore"}, Zeros(DataLen),
                       SliceVal(nextAddr, 0, DataLen, DataLen))
    \* &LargeObject{ID: id, Data: ...}
    \/ At(f, 2) /\ New(<<f, 3>>, f, "obj", "&LargeObject{}", SizeofLargeObject,
                       {"return", "heapstore"},
                       LargeObject(Local(f, "id").v, Local(f, "Data")),
                       Ptr(nextAddr))
    \/ At(f, 3) /\ Return(f, Local(f, "obj"))

ObjectsLenShort == 10 - 1
ObjectsLen == 10
HeapLoopCount == 10
HeapAllocationViaPointer ==
    LET f == "heapAllocationViaPointer" IN
    \* objects := make([]*LargeObject, 10)
    \/ At(f, 1) /\ New(<<f, 2>>, f, "objects", "make([]*LargeObject, 10)",
                       ObjectsLen * WordSize, {},
                       Array([k \in 1..ObjectsLen |-> NilPtr]),
                       SliceVal(nextAddr, 0, ObjectsLen, ObjectsLen))
    \/ At(f, 2) /\ Assign(<<f, 3>>, f, "i", IntV(0))
    \/ At(f, 3) /\ IF Local(f, "i").v < HeapLoopCount
                   THEN Skip(<<f, 4>>) ELSE Skip(<<f, 7>>)
    \* createLargeObject(i)
    \/ /\ At(f, 4)
       /\ Call("createLargeObject", <<"createLargeObject", 1>>, <<f, 5>>)
       /\ locals' = Bind("createLargeObject", "id", Local(f, "i"))
       /\ UNCHANGED <<mem, nextAddr, globals, ret, mstats>>
    \* objects[i] = ...
    \/ /\ At(f, 5)
       /\ IF IndexOk(Local(f, "objects"), Local(f, "i").v)
          THEN /\ pc' = <<f, 6>>
               /\ mem' = IndexStored(Local(f, "objects"), Local(f, "i").v, ret)
               /\ UNCHANGED <<stack, locals, nextAddr, globals, ret, mstats,
                              trace>>
          ELSE Panic
    \* i++
    \/ At(f, 6) /\ Assign(<<f, 3>>, f, "i", IntV(Local(f, "i").v + 1))
    \/ At(f, 7) /\ Skip(<<f, 8>>)
    \/ At(f, 8) /\ Return(f, None)

StructLoopCount == 100
StructLoopStuck(i) == i
\* i++ of the loop of stackStructAllocation
StructLoopPost(i) == i + 1
StackStructAllocation ==
    LET f == "stackStructAllocation" IN
    \/ At(f, 1) /\ Assign(<<f, 2>>, f, "sum", IntV(0))
    \/ At(f, 2) /\ Assign(<<f, 3>>, f, "i", IntV(0))
    \/ At(f, 3) /\ IF Local(f, "i").v < StructLoopCount
                   THEN Skip(<<f, 4>>) ELSE Skip(<<f, 7>>)
    \/ At(f, 4) /\ Assign(<<f, 5>>, f, "s",
                          SmallStruct(Local(f, "i").v, Local(f, "i").v * 2))
    \/ At(f, 5) /\ Assign(<<f, 6>>, f, "sum",
                          IntV(Local(f, "sum").v + Local(f, "s").A + Local(f, "s").B))
    \/ At(f, 6) /\ Assign(<<f, 3>>, f, "i", IntV(StructLoopPost(Local(f, "i").v)))
    \/ At(f, 7) /\ Skip(<<f, 8>>)
    \/ At(f, 8) /\ Return(f, None)

LargeAllocation ==
    LET f == "largeAllocation"
        s == Site(f, "make([]byte, 1024*1024)", 1024 * 1024, {})
    IN
    \* _ = make([]byte, 1024*1024)
    \/ /\ At(f, 1)
       /\ pc' = <<f, 2>>
       /\ mem' = MemWith(s, Zeros(1024 * 1024))
       /\ mstats' = StatsWith(s)
       /\ nextAddr' = nextAddr + 1
       /\ Log(Alloc(s, Zeros(1024 * 1024)))
       /\ UNCHANGED <<stack, locals, globals, ret>>
    \/ At(f, 2) /\ Return(f, None)

\* func() { stackOnlyAllocation() } and the three closures like it
TrackedClosure ==
    \E k \in 1..Len(Tracked) :
        LET f == Tracked[k].code IN
        \/ At(f, 1) /\ CallOnly(Tracked[k].target, <<f, 2>>)
        \/ At(f, 2) /\ Return(f, None)

DemonstrateMemoryTracking ==
    LET f == "DemonstrateMemoryTracking" IN
    \/ At(f, 1) /\ Fmt(<<f, 2>>, <<"====">>)
    \/ At(f, 2) /\ Fmt(<<f, 3>>, <<"MEMORY ALLOCATION TRACKING">>)
    \/ At(f, 3) /\ Fmt(<<f, 4>>, <<"====">>)
    \* TrackMemory(name, func() { ... }), four times
    \/ \E k \in 1..Len(Tracked) :
        /\ At(f, 3 + k)
        /\ Call("TrackMemory", <<"TrackMemory", 1>>, <<f, 4 + k>>)
        /\ locals' = (<<"TrackMemory", "name">> :> StrV(Tracked[k].name))
                        @@ Bind("TrackMemory", "fn", Func(Tracked[k].code, 0))
        /\ UNCHANGED <<mem, nextAddr, globals, ret, mstats>>
    \/ At(f, 4 + Len(Tracked) + 0) /\ Fmt(<<f, 5 + Len(Tracked)>>, <<"====">>)
    \/ At(f, 5 + Len(Tracked)) /\ Return(f, None)

(***************************************************************************)
(* The runtime's own collections, at times the program does not choose     *)
(***************************************************************************)
BackgroundGC ==
    /\ pc \notin {Exit, Panicked}
    /\ Sweep # {}
    /\ mem' = Collected(Sweep)
    /\ mstats' = StatsCollected(Sweep)
    /\ UNCHANGED <<pc, stack, locals, nextAddr, globals, ret, trace>>

Program ==
    \/ Main
    \/ StackExample
    \/ HeapExample
    \/ CreateUser
    \/ PointerSharingExample
    \/ SliceSharingExample
    \/ NoEscape
    \/ EscapesViaReturn
    \/ EscapesViaInterface
    \/ EscapesViaSizeTooLarge
    \/ NoEscapeLocalPointer
    \/ EscapesViaGlobal
    \/ EscapesViaClosure
    \/ EscapesViaClosureFunc1
    \/ DemonstrateEscapeAnalysis
    \/ DemonstrateMemoryTracking
    \/ TrackMemory
    \/ TrackedClosure
    \/ StackOnlyAllocation
    \/ StackStructAllocation
    \/ HeapAllocationViaPointer
    \/ CreateLargeObject
    \/ LargeAllocation

Next == Program \/ BackgroundGC

Spec == Init /\ [][Next]_vars

\* the one goroutine runs until main returns: a statement that can run, runs
FairSpec == Spec /\ WF_vars(Program)

(***************************************************************************)
(* Properties                                                              *)
(***************************************************************************)
IsCallOrReturn(ev) == ev.e \in {"call", "return"}
CountOf(ev) == Cardinality({i \in 1..Len(trace) : trace[i] = ev})

DemoOrder ==
    << "stackExample", "heapExample", "pointerSharingExample",
       "sliceSharingExample", "DemonstrateEscapeAnalysis",
       "DemonstrateMemoryTracking" >>
Demos == {DemoOrder[k] : k \in 1..Len(DemoOrder)}
IsDemoEvent(ev) == IsCallOrReturn(ev) /\ ev.what \in Demos
DemoEvents == SelectSeq(trace, IsDemoEvent)
ExpectedDemoEvents ==
    [k \in 1..(2 * Len(DemoOrder)) |->
        IF k % 2 = 1 THEN Ev("call", DemoOrder[(k + 1) \div 2])
        ELSE Ev("return", DemoOrder[k \div 2])]

\* C1: in every run of main the six demo functions are called once each, in
\* source order, each returning before the next is called: the calls and
\* returns of the demos so far are always a prefix of call stackExample,
\* return stackExample, ..., call DemonstrateMemoryTracking, return
\* DemonstrateMemoryTracking, and all of it when main ends.
C1_DemosOnceInOrder ==
    /\ Len(DemoEvents) <= Len(ExpectedDemoEvents)
    /\ DemoEvents = SubSeq(ExpectedDemoEvents, 1, Len(DemoEvents))
    /\ (pc = Exit => DemoEvents = ExpectedDemoEvents)

C1_Witness ==
    /\ pc = Exit
    /\ \A k \in 1..Len(DemoOrder) :
        CountOf(Ev("call", DemoOrder[k])) = 1
            /\ CountOf(Ev("return", DemoOrder[k])) = 1

\* C2: every run of main terminates: main reaches its end (with the two
\* loops finished and every demo returned), under the fairness of FairSpec.
C2_MainTerminates == <>(pc = Exit)

C2_Witness ==
    /\ pc = Exit
    /\ CountOf(Ev("return", "createLargeObject")) = HeapLoopCount
    /\ CountOf(Ev("return", "stackStructAllocation")) = 1

\* C3: no run reaches a panic: every slice expression and index is in
\* bounds and every dereferenced pointer or called function value is
\* non-nil, so no statement takes its panic branch.
C3_NoPanic ==
    /\ pc # Panicked
    /\ \A i \in 1..Len(trace) : trace[i].e # "panic"

C3_Witness ==
    /\ At("heapAllocationViaPointer", 6)
    /\ Local("heapAllocationViaPointer", "i").v = ObjectsLen - 1
    /\ CountOf(Ev("return", "sliceSharingExample")) = 1
    /\ CountOf(Ev("return", "escapesViaClosure.func1")) = 1

\* the statement of f that runs next, while f is the running function
After(f, n) == pc[1] = f /\ pc[2] > n
AllocsOf(f, kind) ==
    {i \in 1..Len(trace) :
        trace[i].e = "alloc" /\ trace[i].fn = f /\ trace[i].kind = kind}
PrintsAt(f, n) ==
    {i \in 1..Len(trace) : trace[i].e = "print" /\ trace[i].what = <<f, n>>}

\* C4: in pointerSharingExample user, ptr1, ptr2 and ptr3 hold the same
\* non-nil address from the moment each is assigned; the object there reads
\* {Bob 25} until ptr1.Age = 26 and {Bob 26} through every one of the four
\* afterwards (and so do the Printf lines); the function allocates exactly
\* one User object.
C4_PointersShareOneUser ==
    LET f == "pointerSharingExample"
        assigned == {v \in {"user", "ptr1", "ptr2", "ptr3"} : <<f, v>> \in DOMAIN locals}
    IN
    /\ Cardinality(AllocsOf(f, "User")) <= 1
    /\ pc[1] = f =>
        /\ After(f, 1) => "user" \in assigned /\ Cardinality(AllocsOf(f, "User")) = 1
        /\ After(f, 4) => assigned = {"user", "ptr1", "ptr2", "ptr3"}
        /\ \A v \in assigned :
            /\ CellVar(f, v).t = "ptr"
            /\ CellVar(f, v).a # 0
            /\ CellVar(f, v) = CellVar(f, "user")
            /\ Load(CellVar(f, v).a) =
                 IF After(f, 11) THEN User("Bob", 26) ELSE User("Bob", 25)
    /\ \A n \in 5..8 : \A i \in PrintsAt(f, n) :
        /\ trace[i].v[3] = User("Bob", 25)
        /\ \A j \in PrintsAt(f, 5) : trace[i].v[1] = trace[j].v[1]
    /\ \A i \in PrintsAt(f, 12) : trace[i].v = <<User("Bob", 26)>>

C4_Witness ==
    /\ At("pointerSharingExample", 13)
    /\ Load(CellVar("pointerSharingExample", "ptr3").a) = User("Bob", 26)
    /\ Cardinality({Local("pointerSharingExample", v).a :
                        v \in {"user", "ptr1", "ptr2", "ptr3"}}) = 4

Ints(es) == [k \in 1..Len(es) |-> IntV(es[k])]

\* C5: in sliceSharingExample slice1 = original[1:4] and slice2 =
\* original[2:] are views of original's backing array: element k of slice1
\* is element k+1 of original and element k of slice2 is element k+2 of
\* original at every point; original reads [1 2 3 4 5] before slice1[1] = 99
\* and [1 2 99 4 5] after it, when slice1 reads [2 99 4] and slice2
\* [99 4 5], which is also what is printed.
C5_SlicesShareBackingArray ==
    LET f == "sliceSharingExample"
        o == Local(f, "original")
        has(v) == <<f, v>> \in DOMAIN locals
    IN
    /\ pc[1] = f =>
        /\ After(f, 1) =>
            /\ has("original")
            /\ Elems(o) = IF After(f, 7) THEN Ints(<<1, 2, 99, 4, 5>>)
                          ELSE Ints(<<1, 2, 3, 4, 5>>)
        /\ After(f, 2) =>
            /\ has("slice1")
            /\ Local(f, "slice1").a = o.a
            /\ Local(f, "slice1").len = 3 /\ Local(f, "slice1").cap = 4
            /\ \A k \in 0..2 : Elems(Local(f, "slice1"))[k + 1] = Elems(o)[k + 2]
        /\ After(f, 3) =>
            /\ has("slice2")
            /\ Local(f, "slice2").a = o.a
            /\ Local(f, "slice2").len = 3 /\ Local(f, "slice2").cap = 3
            /\ \A k \in 0..2 : Elems(Local(f, "slice2"))[k + 1] = Elems(o)[k + 3]
        /\ After(f, 7) =>
            /\ Elems(Local(f, "slice1")) = Ints(<<2, 99, 4>>)
            /\ Elems(Local(f, "slice2")) = Ints(<<99, 4, 5>>)
    /\ \A i \in PrintsAt(f, 9) : trace[i].v = <<Ints(<<1, 2, 99, 4, 5>>)>>
    /\ \A i \in PrintsAt(f, 10) : trace[i].v = <<Ints(<<2, 99, 4>>)>>
    /\ \A i \in PrintsAt(f, 11) : trace[i].v = <<Ints(<<99, 4, 5>>)>>

C5_Witness ==
    /\ At("sliceSharingExample", 13)
    /\ Elems(Local("sliceSharingExample", "original"))[3] = IntV(99)
    /\ PrintsAt("sliceSharingExample", 11) # {}

(***************************************************************************)
(* The calls of TrackMemory in the trace                                   *)
(***************************************************************************)
TrackCalls == {i \in 1..Len(trace) : trace[i] = Ev("call", "TrackMemory")}
TrackReturns == {i \in 1..Len(trace) : trace[i] = Ev("return", "TrackMemory")}
Finished(i) == \E j \in TrackReturns : j > i
\* the last event of the call that starts at i
TrackEnd(i) ==
    IF Finished(i)
    THEN CHOOSE j \in TrackReturns : j > i /\ \A h \in TrackReturns : h > i => j <= h
    ELSE Len(trace)
\* the call at i is the k-th call of TrackMemory
Ordinal(i) == Cardinality({j \in TrackCalls : j <= i})
ClosureCodes == {Tracked[k].code : k \in 1..Len(Tracked)}
IsTrackStep(ev) ==
    CASE ev.e \in {"runtime.GC", "ReadMemStats"} -> TRUE
      [] ev.e \in {"call", "return"} -> ev.what \in ClosureCodes
      [] ev.e = "print" -> ev.what[1] = "TrackMemory"
      [] OTHER -> FALSE
StepName(ev) == IF ev.e = "print" THEN <<"print", ev.v[1]>> ELSE <<ev.e, ev.what>>
TrackSteps(i) ==
    LET steps == SelectSeq(SubSeq(trace, i + 1, TrackEnd(i)), IsTrackStep)
    IN [n \in 1..Len(steps) |-> StepName(steps[n])]
ExpectedTrackSteps(k) ==
    << <<"runtime.GC", "TrackMemory">>, <<"ReadMemStats", "Before">>,
       <<"call", Tracked[k].code>>, <<"return", Tracked[k].code>>,
       <<"ReadMemStats", "After">>, <<"print", "Memory Tracking">>,
       <<"print", "Total allocated">>, <<"print", "Heap allocated">>,
       <<"print", "Heap objects added">>, <<"print", "Mallocs">> >>

\* C6: in every call TrackMemory(name, fn) the forced collection, the read
\* of Before, the call of fn, its return, the read of After and the printed
\* lines (the header, then the four deltas) happen in this order, each
\* exactly once: what a call has done so far is always a prefix of that
\* list, and all of it once the call has returned.
C6_TrackMemoryOrder ==
    \A i \in TrackCalls :
        LET steps == TrackSteps(i)
            want == ExpectedTrackSteps(Ordinal(i))
        IN /\ Ordinal(i) <= Len(Tracked)
           /\ Len(steps) <= Len(want)
           /\ steps = SubSeq(want, 1, Len(steps))
           /\ Finished(i) => steps = want

C6_Witness ==
    /\ pc = Exit
    /\ Cardinality(TrackCalls) = Len(Tracked)
    /\ \A i \in TrackCalls : Finished(i) /\ Len(TrackSteps(i)) = 10

DeltaLabels == {"Total allocated", "Heap allocated", "Heap objects added", "Mallocs"}
\* the deltas the call at i has printed: label -> value
Deltas(i) ==
    {trace[j].v : j \in {h \in i..TrackEnd(i) :
        /\ trace[h].e = "print"
        /\ trace[h].what[1] = "TrackMemory"
        /\ trace[h].v[1] \in DeltaLabels}}
\* fn has allocated on the heap during the call at i
HeapAllocsIn(i) ==
    {j \in i..TrackEnd(i) : trace[j].e = "alloc" /\ trace[j].region = "heap"}
Runs(i, f) == \E j \in i..TrackEnd(i) : trace[j] = Ev("call", f)

C8_HeapAllocationReport ==
    \A i \in TrackCalls : Ordinal(i) = 3 =>
        \A d \in Deltas(i) :
            /\ d[1] = "Heap objects added" => d[2] = U64(2 * HeapLoopCount)
            /\ d[1] = "Total allocated" =>
                d[2] = U64(HeapLoopCount * (DataLen + SizeofLargeObject))

Has(f, v) == <<f, v>> \in DOMAIN locals

\* C9: no pointer dangles: every address reachable from a local of an
\* active call, a package-level variable or a value being returned is a
\* live cell, and what it was given is still there: the *int of
\* escapesViaReturn, the cell behind globalPtr and globalInterface and the x
\* of the closure hold 42, the *User of createUser holds {Alice 30}, after
\* the function that created them has returned and whatever the collector
\* has freed meanwhile.
C9_NoDanglingPointer ==
    /\ Reachable \subseteq DOMAIN mem
    /\ Has("heapExample", "user") =>
        Load(Local("heapExample", "user").a) = User("Alice", 30)
    /\ Has("DemonstrateEscapeAnalysis", "ptr") =>
        Load(Local("DemonstrateEscapeAnalysis", "ptr").a) = IntV(42)
    /\ Has("DemonstrateEscapeAnalysis", "fn") =>
        Load(Local("DemonstrateEscapeAnalysis", "fn").a) = IntV(42)
    /\ Has("escapesViaClosure.func1", "x") =>
        CellVar("escapesViaClosure.func1", "x") = IntV(42)
    /\ globals.globalPtr # NilPtr => Load(globals.globalPtr.a) = IntV(42)
    /\ globals.globalInterface # NilIface =>
        Load(globals.globalInterface.a) = IntV(42)
    /\ ret.t \in {"ptr", "func"} => Load(ret.a) \in {IntV(42), User("Alice", 30)}
           \/ Load(ret.a).t = "LargeObject"

C9_Witness ==
    /\ At("escapesViaClosure.func1", 1)
    /\ mstats.Frees > 0
    /\ CellVar("escapesViaClosure.func1", "x") = IntV(42)
    /\ Load(Local("DemonstrateEscapeAnalysis", "ptr").a) = IntV(42)
    /\ Load(globals.globalPtr.a) = IntV(42)
    /\ mem[globals.globalPtr.a].frame = "escapesViaGlobal"

SetGlobalEvents == {i \in 1..Len(trace) : trace[i].e = "setglobal"}
WrittenGlobals == {trace[i].what : i \in SetGlobalEvents}
ActiveFns == {stack[i].fn : i \in 1..Len(stack)}

\* C10 (the claim as stated): exactly one package-level variable is ever
\* written during a run of main.
C10_OneGlobalWritten ==
    /\ Cardinality(WrittenGlobals) <= 1
    /\ pc = Exit => Cardinality(WrittenGlobals) = 1

\* C10 (amended): exactly two package-level variables are written during a
\* run of main, globalInterface and globalPtr, each once (and hold what was
\* written); all other state is local to the call that creates it: every
\* local belongs to an active call, and between the demos main holds no
\* locals and nothing is reachable but through the two globals.
C10_TwoGlobalsWritten ==
    /\ WrittenGlobals \subseteq {"globalInterface", "globalPtr"}
    /\ \A g \in WrittenGlobals : CountOf(Ev("setglobal", g)) = 1
    /\ pc = Exit => WrittenGlobals = {"globalInterface", "globalPtr"}
    /\ (globals.globalInterface # NilIface) = ("globalInterface" \in WrittenGlobals)
    /\ (globals.globalPtr # NilPtr) = ("globalPtr" \in WrittenGlobals)
    /\ \A k \in DOMAIN locals : k[1] \in ActiveFns
    /\ pc[1] \in {"main", "exit"} =>
        /\ stack = <<>>
        /\ DOMAIN locals = {}
        /\ Roots = GlobalRoots

C10_Witness ==
    /\ pc = Exit
    /\ WrittenGlobals = {"globalInterface", "globalPtr"}
    /\ globals.globalPtr.a # globals.globalInterface.a
    /\ Reachable = {globals.globalPtr.a, globals.globalInterface.a}

\* What holds of the third call in every run: the counters that only grow
\* report the 20 allocations of 10 x (1024 + 32) bytes, and the two deltas a
\* collection can lower never exceed them.
C8_AllocationTotals ==
    \A i \in TrackCalls : Ordinal(i) = 3 =>
        \A d \in Deltas(i) :
            /\ d[1] = "Mallocs" => d[2] = U64(2 * HeapLoopCount)
            /\ d[1] = "Total allocated" =>
                d[2] = U64(HeapLoopCount * (DataLen + SizeofLargeObject))
            /\ d[1] = "Heap objects added" =>
                ~d[2].wrapped /\ d[2].v <= 2 * HeapLoopCount
            /\ d[1] = "Heap allocated" =>
                ~d[2].wrapped
                    /\ d[2].v <= HeapLoopCount * (DataLen + SizeofLargeObject)

(***************************************************************************)
(* The subtractions of TrackMemory                                         *)
(***************************************************************************)
Counters == {"TotalAlloc", "HeapAlloc", "HeapObjects", "Mallocs"}
CounterOf(label) ==
    CASE label = "Total allocated" -> "TotalAlloc"
      [] label = "Heap allocated" -> "HeapAlloc"
      [] label = "Heap objects added" -> "HeapObjects"
      [] label = "Mallocs" -> "Mallocs"
\* TrackMemory has read After and is at its subtractions or prints
Subtracting == pc[1] = "TrackMemory" /\ pc[2] >= 6
\* the call of TrackMemory that is running
CurrentTrack == CHOOSE i \in TrackCalls : \A j \in TrackCalls : j <= i
\* a collection has run between the two reads of the running call: cells
\* that fn allocated are already freed
CollectedWhileTracked ==
    LET m == Local("TrackMemory", "m") IN
    m.After.Mallocs - m.Before.Mallocs > m.After.HeapObjects - m.Before.HeapObjects

StackFns == {"noEscape", "noEscapeLocalPointer"}
HeapFns == {"escapesViaReturn", "escapesViaInterface", "escapesViaSizeTooLarge",
            "escapesViaGlobal", "escapesViaClosure"}
EscapeFns == StackFns \cup HeapFns
\* the allocations of f so far, as the trace records them
AllocEvents(f) == {i \in 1..Len(trace) : trace[i].e = "alloc" /\ trace[i].fn = f}
HasReturned(f) == \E i \in 1..Len(trace) : trace[i] = Ev("return", f)
\* the cells f has allocated
CellsOf(f) == {a \in DOMAIN mem : mem[a].frame = f}
\* this step is the return of f
Returning(f) == pc[1] = f /\ trace' = Append(trace, Ev("return", f))

\* where each of the seven has placed what it has allocated: one variable
\* each, on the stack for noEscape and noEscapeLocalPointer, on the heap for
\* the other five
PlacedAsDocumented ==
    \A f \in EscapeFns :
        /\ Cardinality(AllocEvents(f)) <= 1
        /\ HasReturned(f) => Cardinality(AllocEvents(f)) = 1
        /\ \A i \in AllocEvents(f) :
            trace[i].region = (IF f \in HeapFns THEN "heap" ELSE "stack")
\* when one of the seven returns, its variable is on the heap exactly when
\* something still refers to it after the return (the value returned, a
\* package-level variable, the closure returned) or it is larger than the
\* stack takes
HeapIffOutlives ==
    \A f \in EscapeFns : Returning(f) =>
        \A a \in CellsOf(f) :
            mem[a].region = "heap" <=>
                (a \in Reachable' \/ mem[a].size > MaxImplicitStackVarSize)

====
